---- MODULE Spec2Model ----
(***************************************************************************)
(* A model of the inboxer library (github.com/r0bertson/inboxer): a thin   *)
(* Gmail client.  The module holds five independent state machines, each   *)
(* with its own specification:                                             *)
(*   SpecFetch   Query / GetMessages / getByID / MarkAllAsRead             *)
(*   SpecAuth    SetupGmailService / GetGmailServiceFromFile and the token *)
(*               cache file, run by concurrent processes                   *)
(*   SpecBody    GetBody and the base64url decoding of a part              *)
(*   SpecMeta    GetPartialMetadata                                        *)
(*   SpecUnread  CheckForUnread / CheckForUnreadByLabel                    *)
(* Each specification leaves the other machines' variables untouched.      *)
(***************************************************************************)
EXTENDS Integers, Sequences, FiniteSets

VARIABLES
    \* ---- provider mailbox and the fetch / mark-as-read call ----
    order,      \* the provider's listing order: a permutation of the message IDs
    labels,     \* provider: message ID -> the set of its label IDs
    op,         \* the library call in progress
    pc,         \* its position
    arg,        \* its argument (query string or howMany)
    inbox,      \* the list response (*gmail.ListMessagesResponse), Nil if none
    msgSlice,   \* getByID's accumulator, then Query's msgs
    idx,        \* the range loop's position
    ret,        \* the call's return values
    provErr,    \* the error value of the provider's last failed call
    fetched,    \* the Messages.Get requests issued by this call, in order
    modified,   \* the Messages.Modify requests issued by this call, in order
    \* ---- token cache file and the authentication calls ----
    file,       \* the token cache file: [exists, data]
    apc,        \* per process: position in SetupGmailService / GetGmailServiceFromFile
    aop,        \* per process: which call it runs
    creds,      \* per process: the condition of the credentials file at the path it passes
    tok,        \* per process: the token it holds (decoded, or exchanged)
    aret,       \* per process: the call's return value
    prompted,   \* per process: the authorization prompt was shown in this call
    exchanged,  \* per process: a code exchange was performed in this call
    wrote,      \* per process: this call opened the cache file for writing
    found,      \* per process: what this call's tokenFromFile returned
    calls,      \* per process: number of calls started
    persisted,  \* number of completed saveToken encodes so far
    \* ---- GetBody ----
    bmsg,       \* the message payload's parts
    bmime,      \* the requested MIME type
    bpc,        \* position
    bret,       \* return values
    \* ---- GetPartialMetadata ----
    headers,    \* the message payload's header list
    info,       \* the PartialMetadata under construction
    hpc,        \* position
    \* ---- CheckForUnread / CheckForUnreadByLabel ----
    labelStats, \* provider: label -> [MessagesUnread, ThreadsUnread]
    upc,        \* position
    uop,        \* which call
    ulabel,     \* the label asked for
    uret,       \* return values
    uerr        \* the error value of the provider's last failed Labels.Get

fetchVars == <<order, labels, op, pc, arg, inbox, msgSlice, idx, ret, provErr,
               fetched, modified>>
authVars == <<file, apc, aop, creds, tok, aret, prompted, exchanged, wrote,
              found, calls, persisted>>
bodyVars == <<bmsg, bmime, bpc, bret>>
metaVars == <<headers, info, hpc>>
unreadVars == <<labelStats, upc, uop, ulabel, uret, uerr>>
vars == <<fetchVars, authVars, bodyVars, metaVars, unreadVars>>

NoErr == "nil"

\* The bounds of the model.
MaxMsgs == 3
MaxCalls == 2
MaxHeaders == 3
MaxCount == 2
MaxNodes == 3
MaxDepth == 3

Prefix(s, n) == SubSeq(s, 1, n)

(***************************************************************************)
(* Provider side of the message API.                                       *)
(***************************************************************************)
MsgIds == 1..MaxMsgs
\* The error values a remote call can fail with.
RemoteErrors == {"network", "rate_limit"}
Queries == {"label:UNREAD", "in:anywhere"}
\* The label IDs a message can carry.
LabelIds == {"UNREAD", "STARRED"}

Orderings(S) ==
    {s \in [1..Cardinality(S) -> S] : \A a, b \in 1..Cardinality(S) : s[a] = s[b] => a = b}

\* Messages.List: the IDs matching the query, in the provider's order.
ListMatching(q) ==
    SelectSeq(order, LAMBDA id : q = "label:UNREAD" => "UNREAD" \in labels[id])

\* Messages.List with MaxResults.
ListFirst(howMany) ==
    Prefix(order, IF howMany < Len(order) THEN howMany ELSE Len(order))

\* Messages.Get: the full message of an ID.
Hydrate(id) ==
    [Id |-> id, LabelIds |-> labels[id]]

\* A nil *gmail.ListMessagesResponse, and the arguments of no call.
NilResponse == [isNil |-> TRUE, Messages |-> <<>>]
NoArg == [q |-> "", n |-> 0]

(***************************************************************************)
(* Query, GetMessages, getByID, MarkAs, MarkAllAsRead (src/inboxer.go).    *)
(* One action per remote call; a remote call either succeeds or fails with *)
(* one of RemoteErrors, in which case the SDK returns a nil response.  A   *)
(* failed Modify is taken to leave the message's labels as they were.      *)
(***************************************************************************)
notFetch == <<authVars, bodyVars, metaVars, unreadVars>>

\* The caller starts Query(srv, query).
CallQuery ==
    /\ pc = "idle"
    /\ \E q \in Queries : arg' = [q |-> q, n |-> 0]
    /\ op' = "Query"
    /\ pc' = "list"
    /\ inbox' = NilResponse /\ msgSlice' = <<>> /\ idx' = 0
    /\ ret' = [msgs |-> <<>>, err |-> NoErr]
    /\ provErr' = NoErr /\ fetched' = <<>> /\ modified' = <<>>
    /\ UNCHANGED <<order, labels>>
    /\ UNCHANGED notFetch

\* The caller starts GetMessages(srv, howMany).
CallGetMessages ==
    /\ pc = "idle"
    /\ \E n \in 1..(MaxMsgs + 1) : arg' = [q |-> "", n |-> n]
    /\ op' = "GetMessages"
    /\ pc' = "list"
    /\ inbox' = NilResponse /\ msgSlice' = <<>> /\ idx' = 0
    /\ ret' = [msgs |-> <<>>, err |-> NoErr]
    /\ provErr' = NoErr /\ fetched' = <<>> /\ modified' = <<>>
    /\ UNCHANGED <<order, labels>>
    /\ UNCHANGED notFetch

\* The caller starts MarkAllAsRead(srv), which calls Query(srv, "label:UNREAD").
CallMarkAllAsRead ==
    /\ pc = "idle"
    /\ arg' = [q |-> "label:UNREAD", n |-> 0]
    /\ op' = "MarkAllAsRead"
    /\ pc' = "list"
    /\ inbox' = NilResponse /\ msgSlice' = <<>> /\ idx' = 0
    /\ ret' = [msgs |-> <<>>, err |-> NoErr]
    /\ provErr' = NoErr /\ fetched' = <<>> /\ modified' = <<>>
    /\ UNCHANGED <<order, labels>>
    /\ UNCHANGED notFetch

\* Query's list call and its error branch (also Query as called by
\* MarkAllAsRead).  On failure inbox is nil and `return inbox.Messages, err`
\* dereferences it: the goroutine panics.
QueryList ==
    /\ pc = "list"
    /\ op \in {"Query", "MarkAllAsRead"}
    /\ \/ /\ inbox' = [isNil |-> FALSE, Messages |-> ListMatching(arg.q)]
          /\ pc' = "get"
          /\ idx' = 1
          /\ UNCHANGED <<provErr>>
       \/ /\ \E e \in RemoteErrors : provErr' = e
          /\ inbox' = NilResponse
          /\ pc' = "panic"
          /\ UNCHANGED <<idx>>
    /\ UNCHANGED <<order, labels, op, arg, msgSlice, ret, fetched, modified>>
    /\ UNCHANGED notFetch

\* GetMessages' list call and its error branch.
GetMessagesList ==
    /\ pc = "list"
    /\ op = "GetMessages"
    /\ \/ /\ inbox' = [isNil |-> FALSE, Messages |-> ListFirst(arg.n)]
          /\ pc' = "get"
          /\ idx' = 1
          /\ UNCHANGED <<provErr, ret>>
       \/ /\ \E e \in RemoteErrors :
                /\ provErr' = e
                /\ ret' = [msgs |-> msgSlice, err |-> e]
          /\ inbox' = NilResponse
          /\ pc' = "done"
          /\ UNCHANGED <<idx>>
    /\ UNCHANGED <<order, labels, op, arg, msgSlice, fetched, modified>>
    /\ UNCHANGED notFetch

\* Where getByID's result goes: Query and GetMessages return it; MarkAllAsRead
\* returns Query's error, or goes on to its modify loop.
AfterGetByID(msgs, err) ==
    IF op = "MarkAllAsRead"
    THEN IF err # NoErr
         THEN /\ ret' = [msgs |-> <<>>, err |-> err]
              /\ pc' = "done"
              /\ idx' = idx
         ELSE /\ ret' = ret
              /\ pc' = "modify"
              /\ idx' = 1
    ELSE /\ ret' = [msgs |-> msgs, err |-> err]
         /\ pc' = "done"
         /\ idx' = idx

\* getByID with a slip: a failed Messages.Get is skipped and the loop goes on.
GetByIDStep_SkipsFailure ==
    /\ pc = "get"
    /\ IF idx > Len(inbox.Messages)
       THEN /\ AfterGetByID(msgSlice, NoErr)
            /\ UNCHANGED <<msgSlice, provErr, fetched>>
       ELSE /\ fetched' = Append(fetched, inbox.Messages[idx])
            /\ \/ /\ msgSlice' = Append(msgSlice, Hydrate(inbox.Messages[idx]))
                  /\ UNCHANGED provErr
               \/ /\ \E e \in RemoteErrors : provErr' = e
                  /\ UNCHANGED msgSlice
            /\ idx' = idx + 1
            /\ UNCHANGED <<pc, ret>>
    /\ UNCHANGED <<order, labels, op, arg, inbox, modified>>
    /\ UNCHANGED notFetch

\* One iteration of getByID's loop (one Messages.Get), or its end.
GetByIDStep ==
    /\ pc = "get"
    /\ IF idx > Len(inbox.Messages)
       THEN /\ AfterGetByID(msgSlice, NoErr)
            /\ UNCHANGED <<msgSlice, provErr, fetched>>
       ELSE /\ fetched' = Append(fetched, inbox.Messages[idx])
            /\ \/ /\ msgSlice' = Append(msgSlice, Hydrate(inbox.Messages[idx]))
                  /\ idx' = idx + 1
                  /\ UNCHANGED <<pc, ret, provErr>>
               \/ \E e \in RemoteErrors :
                    /\ provErr' = e
                    /\ AfterGetByID(msgSlice, e)
                    /\ UNCHANGED <<msgSlice>>
    /\ UNCHANGED <<order, labels, op, arg, inbox, modified>>
    /\ UNCHANGED notFetch

\* MarkAs: one Messages.Modify on msg.Id, which gives the new labelling.
MarkAs(id, req) ==
    [labels EXCEPT ![id] = (@ \ req.RemoveLabelIds) \cup req.AddLabelIds]

\* MarkAllAsRead's request.
MarkReadRequest == [AddLabelIds |-> {}, RemoveLabelIds |-> {"UNREAD"}]

\* MarkAllAsRead with a slip: a failed Modify does not end the loop.
MarkAllAsReadStep_NoHalt ==
    /\ pc = "modify"
    /\ IF idx > Len(msgSlice)
       THEN /\ ret' = [msgs |-> <<>>, err |-> NoErr]
            /\ pc' = "done"
            /\ UNCHANGED <<labels, idx, provErr, modified>>
       ELSE /\ modified' = Append(modified, msgSlice[idx].Id)
            /\ \/ /\ labels' = MarkAs(msgSlice[idx].Id, MarkReadRequest)
                  /\ UNCHANGED provErr
               \/ /\ \E e \in RemoteErrors : provErr' = e
                  /\ UNCHANGED labels
            /\ idx' = idx + 1
            /\ UNCHANGED <<pc, ret>>
    /\ UNCHANGED <<order, op, arg, inbox, msgSlice, fetched>>
    /\ UNCHANGED notFetch

\* One iteration of MarkAllAsRead's loop, or its end.
MarkAllAsReadStep ==
    /\ pc = "modify"
    /\ IF idx > Len(msgSlice)
       THEN /\ ret' = [msgs |-> <<>>, err |-> NoErr]
            /\ pc' = "done"
            /\ UNCHANGED <<labels, idx, provErr, modified>>
       ELSE /\ modified' = Append(modified, msgSlice[idx].Id)
            /\ \/ /\ labels' = MarkAs(msgSlice[idx].Id, MarkReadRequest)
                  /\ idx' = idx + 1
                  /\ UNCHANGED <<pc, ret, provErr>>
               \/ \E e \in RemoteErrors :
                    /\ provErr' = e
                    /\ ret' = [msgs |-> <<>>, err |-> e]
                    /\ pc' = "done"
                    /\ UNCHANGED <<labels, idx>>
    /\ UNCHANGED <<order, op, arg, inbox, msgSlice, fetched>>
    /\ UNCHANGED notFetch

\* The call has returned; the caller may call again.
Return ==
    /\ pc = "done"
    /\ pc' = "idle"
    /\ UNCHANGED <<order, labels, op, arg, inbox, msgSlice, idx, ret, provErr, fetched, modified>>
    /\ UNCHANGED notFetch

FetchNext ==
    \/ CallQuery
    \/ CallGetMessages
    \/ CallMarkAllAsRead
    \/ QueryList
    \/ GetMessagesList
    \/ GetByIDStep
    \/ MarkAllAsReadStep
    \/ Return

(***************************************************************************)
(* The token cache file and its JSON encoding (src/api.go).  A token is    *)
(* the sequence of characters of its access token; the file holds bytes.   *)
(***************************************************************************)
Procs == {"p1", "p2"}
\* The tokens a code exchange can yield (of different encoded lengths).
Tokens == {<<"a">>, <<"b", "b">>}

\* json.NewEncoder(f).Encode(token): the JSON object and a newline.
EncodeToken(t) == <<"{">> \o t \o <<"}", "\n">>

\* A write that appends, as of a file opened with O_APPEND.
WriteAt0_Appends(data, bytes) == data \o bytes

\* A write of bytes at offset 0 of a file holding data (no truncation).
WriteAt0(data, bytes) == bytes \o SubSeq(data, Len(bytes) + 1, Len(data))

\* The position of the first "}" of data from position k on, 0 if none.
RECURSIVE FirstClose(_, _)
FirstClose(data, k) ==
    IF k > Len(data) THEN 0
    ELSE IF data[k] = "}" THEN k
    ELSE FirstClose(data, k + 1)

\* The position of the first byte of data that is not whitespace, from k on.
RECURSIVE SkipSpace(_, _)
SkipSpace(data, k) ==
    IF k > Len(data) THEN k
    ELSE IF data[k] = "\n" THEN SkipSpace(data, k + 1)
    ELSE k

\* json.NewDecoder(f).Decode(token): the first JSON value of the file.
DecodeToken(data) ==
    LET s == SkipSpace(data, 1)
        e == FirstClose(data, s)
    IN  IF s > Len(data) THEN [err |-> "EOF", token |-> <<>>]
        ELSE IF data[s] # "{" THEN [err |-> "invalid character", token |-> <<>>]
        ELSE IF e = 0 THEN [err |-> "unexpected EOF", token |-> <<>>]
        ELSE [err |-> NoErr, token |-> SubSeq(data, s + 1, e - 1)]

\* The conditions a credentials file can be in: readable and well-formed,
\* unreadable, or not credentials JSON.
CredStates == {"ok", "unreadable", "malformed"}

NoReturn == [returned |-> FALSE, err |-> NoErr, svc |-> FALSE]
Returned(e, svc) == [returned |-> TRUE, err |-> e, svc |-> svc]

(***************************************************************************)
(* SetupGmailService and GetGmailServiceFromFile (src/api.go), run by the  *)
(* processes of Procs against the one token cache file.  A step is one     *)
(* access to the file, or one interaction with the console or the          *)
(* authorization server.  log.Fatalf ends the process ("fatal").           *)
(***************************************************************************)
notAuth == <<fetchVars, bodyVars, metaVars, unreadVars>>

\* A call returns: the process is at "done" with its return values.
AuthReturn(p, e, svc) ==
    /\ aret' = [aret EXCEPT ![p] = Returned(e, svc)]
    /\ apc' = [apc EXCEPT ![p] = "done"]

StartCall(p, which, first) ==
    /\ apc[p] = "idle"
    /\ calls[p] < MaxCalls
    /\ calls' = [calls EXCEPT ![p] = @ + 1]
    /\ aop' = [aop EXCEPT ![p] = which]
    /\ apc' = [apc EXCEPT ![p] = first]
    /\ \E c \in CredStates : creds' = [creds EXCEPT ![p] = c]
    /\ tok' = [tok EXCEPT ![p] = <<>>]
    /\ aret' = [aret EXCEPT ![p] = NoReturn]
    /\ prompted' = [prompted EXCEPT ![p] = FALSE]
    /\ exchanged' = [exchanged EXCEPT ![p] = FALSE]
    /\ wrote' = [wrote EXCEPT ![p] = FALSE]
    /\ found' = [found EXCEPT ![p] = "unchecked"]
    /\ UNCHANGED <<file, persisted>>
    /\ UNCHANGED notAuth

CallSetup(p) == StartCall(p, "Setup", "s_open")

CallGet(p) == StartCall(p, "Get", "g_creds")

\* SetupGmailService: newTokenizer, then tokenFromFile's os.Open.
SetupOpenCache(p) ==
    /\ apc[p] = "s_open"
    /\ \/ /\ AuthReturn(p, "user lookup failed", FALSE)
          /\ UNCHANGED found
       \/ /\ file.exists
          /\ apc' = [apc EXCEPT ![p] = "s_decode"]
          /\ UNCHANGED <<aret, found>>
       \/ /\ ~file.exists
          /\ found' = [found EXCEPT ![p] = "open failed"]
          /\ apc' = [apc EXCEPT ![p] = "s_creds"]
          /\ UNCHANGED aret
    /\ UNCHANGED <<file, aop, creds, tok, prompted, exchanged, wrote, calls, persisted>>
    /\ UNCHANGED notAuth

\* SetupGmailService with a slip: the cached token is read but the
\* authorization flow is entered all the same.
SetupDecode_IgnoresCache(p) ==
    /\ apc[p] = "s_decode"
    /\ LET d == DecodeToken(file.data)
       IN  /\ found' = [found EXCEPT ![p] = IF d.err = NoErr THEN "ok" ELSE d.err]
           /\ tok' = [tok EXCEPT ![p] = d.token]
    /\ apc' = [apc EXCEPT ![p] = "s_creds"]
    /\ UNCHANGED <<file, aop, creds, aret, prompted, exchanged, wrote, calls, persisted>>
    /\ UNCHANGED notAuth

\* SetupGmailService: tokenFromFile's Decode and the test err == nil.
SetupDecode(p) ==
    /\ apc[p] = "s_decode"
    /\ LET d == DecodeToken(file.data)
       IN  IF d.err = NoErr
           THEN /\ found' = [found EXCEPT ![p] = "ok"]
                /\ tok' = [tok EXCEPT ![p] = d.token]
                /\ AuthReturn(p, NoErr, FALSE)
           ELSE /\ found' = [found EXCEPT ![p] = d.err]
                /\ apc' = [apc EXCEPT ![p] = "s_creds"]
                /\ UNCHANGED <<tok, aret>>
    /\ UNCHANGED <<file, aop, creds, prompted, exchanged, wrote, calls, persisted>>
    /\ UNCHANGED notAuth

\* SetupGmailService with a slip: the credentials errors are dropped.
SetupCreds_DropsError(p) ==
    /\ apc[p] = "s_creds"
    /\ apc' = [apc EXCEPT ![p] = "s_prompt"]
    /\ UNCHANGED <<file, aop, creds, tok, aret, prompted, exchanged, wrote, found, calls, persisted>>
    /\ UNCHANGED notAuth

\* SetupGmailService: os.ReadFile(credentialsPath) and google.ConfigFromJSON.
SetupCreds(p) ==
    /\ apc[p] = "s_creds"
    /\ IF creds[p] = "ok"
       THEN /\ apc' = [apc EXCEPT ![p] = "s_prompt"]
            /\ UNCHANGED aret
       ELSE AuthReturn(p, creds[p], FALSE)
    /\ UNCHANGED <<file, aop, creds, tok, prompted, exchanged, wrote, found, calls, persisted>>
    /\ UNCHANGED notAuth

\* getTokenFromWeb: the prompt and fmt.Scan of the authorization code.
SetupPrompt(p) ==
    /\ apc[p] = "s_prompt"
    /\ prompted' = [prompted EXCEPT ![p] = TRUE]
    /\ \/ apc' = [apc EXCEPT ![p] = "s_exchange"]
       \/ apc' = [apc EXCEPT ![p] = "fatal"]
    /\ UNCHANGED <<file, aop, creds, tok, aret, exchanged, wrote, found, calls, persisted>>
    /\ UNCHANGED notAuth

\* getTokenFromWeb: config.Exchange.
SetupExchange(p) ==
    /\ apc[p] = "s_exchange"
    /\ exchanged' = [exchanged EXCEPT ![p] = TRUE]
    /\ \/ \E t \in Tokens :
            /\ tok' = [tok EXCEPT ![p] = t]
            /\ apc' = [apc EXCEPT ![p] = "s_save"]
       \/ /\ apc' = [apc EXCEPT ![p] = "fatal"]
          /\ UNCHANGED tok
    /\ UNCHANGED <<file, aop, creds, aret, prompted, wrote, found, calls, persisted>>
    /\ UNCHANGED notAuth

\* saveToken: os.OpenFile with O_RDWR|O_CREATE|O_TRUNC.
SaveTokenOpen(p) ==
    /\ apc[p] = "s_save"
    /\ \/ /\ file' = [exists |-> TRUE, data |-> <<>>]
          /\ wrote' = [wrote EXCEPT ![p] = TRUE]
          /\ apc' = [apc EXCEPT ![p] = "s_encode"]
       \/ /\ apc' = [apc EXCEPT ![p] = "fatal"]
          /\ UNCHANGED <<file, wrote>>
    /\ UNCHANGED <<aop, creds, tok, aret, prompted, exchanged, found, calls, persisted>>
    /\ UNCHANGED notAuth

\* saveToken: Encode (its error is dropped), then SetupGmailService returns nil.
SaveTokenEncode(p) ==
    /\ apc[p] = "s_encode"
    /\ \/ /\ file' = [file EXCEPT !.data = WriteAt0(@, EncodeToken(tok[p]))]
          /\ persisted' = persisted + 1
       \/ UNCHANGED <<file, persisted>>
    /\ AuthReturn(p, NoErr, FALSE)
    /\ UNCHANGED <<aop, creds, tok, prompted, exchanged, wrote, found, calls>>
    /\ UNCHANGED notAuth

\* GetGmailServiceFromFile: os.ReadFile(credentialsPath) and google.ConfigFromJSON.
GetCreds(p) ==
    /\ apc[p] = "g_creds"
    /\ IF creds[p] = "ok"
       THEN /\ apc' = [apc EXCEPT ![p] = "g_open"]
            /\ UNCHANGED aret
       ELSE AuthReturn(p, creds[p], FALSE)
    /\ UNCHANGED <<file, aop, creds, tok, prompted, exchanged, wrote, found, calls, persisted>>
    /\ UNCHANGED notAuth

\* GetGmailServiceFromFile: newTokenizer, then tokenFromFile's os.Open.
GetOpenCache(p) ==
    /\ apc[p] = "g_open"
    /\ \/ /\ AuthReturn(p, "user lookup failed", FALSE)
          /\ UNCHANGED found
       \/ /\ file.exists
          /\ apc' = [apc EXCEPT ![p] = "g_decode"]
          /\ UNCHANGED <<aret, found>>
       \/ /\ ~file.exists
          /\ found' = [found EXCEPT ![p] = "open failed"]
          /\ AuthReturn(p, "open failed", FALSE)
    /\ UNCHANGED <<file, aop, creds, tok, prompted, exchanged, wrote, calls, persisted>>
    /\ UNCHANGED notAuth

\* GetGmailServiceFromFile with a slip: the decoder's error is dropped.
GetDecode_DropsError(p) ==
    /\ apc[p] = "g_decode"
    /\ LET d == DecodeToken(file.data)
       IN  /\ found' = [found EXCEPT ![p] = IF d.err = NoErr THEN "ok" ELSE d.err]
           /\ tok' = [tok EXCEPT ![p] = d.token]
    /\ apc' = [apc EXCEPT ![p] = "g_new"]
    /\ UNCHANGED <<file, aop, creds, aret, prompted, exchanged, wrote, calls, persisted>>
    /\ UNCHANGED notAuth

\* GetGmailServiceFromFile: tokenFromFile's Decode.
GetDecode(p) ==
    /\ apc[p] = "g_decode"
    /\ LET d == DecodeToken(file.data)
       IN  IF d.err = NoErr
           THEN /\ found' = [found EXCEPT ![p] = "ok"]
                /\ tok' = [tok EXCEPT ![p] = d.token]
                /\ apc' = [apc EXCEPT ![p] = "g_new"]
                /\ UNCHANGED aret
           ELSE /\ found' = [found EXCEPT ![p] = d.err]
                /\ AuthReturn(p, d.err, FALSE)
                /\ UNCHANGED tok
    /\ UNCHANGED <<file, aop, creds, prompted, exchanged, wrote, calls, persisted>>
    /\ UNCHANGED notAuth

\* GetGmailServiceFromFile: gmail.New on the authenticated client.
GetNew(p) ==
    /\ apc[p] = "g_new"
    /\ \/ AuthReturn(p, NoErr, TRUE)
       \/ AuthReturn(p, "service construction failed", FALSE)
    /\ UNCHANGED <<file, aop, creds, tok, prompted, exchanged, wrote, found, calls, persisted>>
    /\ UNCHANGED notAuth

\* The caller has its return values; the process may call again.
AuthDone(p) ==
    /\ apc[p] = "done"
    /\ apc' = [apc EXCEPT ![p] = "idle"]
    /\ UNCHANGED <<file, aop, creds, tok, aret, prompted, exchanged, wrote, found, calls, persisted>>
    /\ UNCHANGED notAuth

AuthNext ==
    \E p \in Procs :
        \/ CallSetup(p)
        \/ CallGet(p)
        \/ SetupOpenCache(p)
        \/ SetupDecode(p)
        \/ SetupCreds(p)
        \/ SetupPrompt(p)
        \/ SetupExchange(p)
        \/ SaveTokenOpen(p)
        \/ SaveTokenEncode(p)
        \/ GetCreds(p)
        \/ GetOpenCache(p)
        \/ GetDecode(p)
        \/ GetNew(p)
        \/ AuthDone(p)

(***************************************************************************)
(* GetBody and the base64url decoding (src/inboxer.go).  A string is the   *)
(* sequence of its characters; a decoded body is the sequence of its bytes.*)
(***************************************************************************)
notBody == <<fetchVars, authVars, metaVars, unreadVars>>

\* encoding/base64's URL alphabet: the value of a character is its position - 1.
B64Alphabet ==
    <<"A", "B", "C", "D", "E", "F", "G", "H", "I", "J", "K", "L", "M",
      "N", "O", "P", "Q", "R", "S", "T", "U", "V", "W", "X", "Y", "Z",
      "a", "b", "c", "d", "e", "f", "g", "h", "i", "j", "k", "l", "m",
      "n", "o", "p", "q", "r", "s", "t", "u", "v", "w", "x", "y", "z",
      "0", "1", "2", "3", "4", "5", "6", "7", "8", "9", "-", "_">>

InAlphabet(c) == \E k \in 1..Len(B64Alphabet) : B64Alphabet[k] = c
B64Value(c) == (CHOOSE k \in 1..Len(B64Alphabet) : B64Alphabet[k] = c) - 1

CorruptInput == [err |-> "illegal base64 data", str |-> <<>>]

\* base64.URLEncoding.DecodeString: quanta of four characters, "=" padding
\* allowed only at the end of the last quantum.
RECURSIVE DecodeString(_)
DecodeString(data) ==
    IF Len(data) = 0 THEN [err |-> NoErr, str |-> <<>>]
    ELSE IF Len(data) < 4 THEN CorruptInput
    ELSE LET c1 == data[1]
             c2 == data[2]
             c3 == data[3]
             c4 == data[4]
             last == Len(data) = 4
         IN  IF ~InAlphabet(c1) \/ ~InAlphabet(c2) THEN CorruptInput
             ELSE IF c3 = "="
             THEN IF c4 = "=" /\ last
                  THEN [err |-> NoErr,
                        str |-> <<(B64Value(c1) * 4 + B64Value(c2) \div 16) % 256>>]
                  ELSE CorruptInput
             ELSE IF ~InAlphabet(c3) THEN CorruptInput
             ELSE IF c4 = "="
             THEN IF last
                  THEN [err |-> NoErr,
                        str |-> <<(B64Value(c1) * 4 + B64Value(c2) \div 16) % 256,
                                  (B64Value(c2) * 16 + B64Value(c3) \div 4) % 256>>]
                  ELSE CorruptInput
             ELSE IF ~InAlphabet(c4) THEN CorruptInput
             ELSE LET rest == DecodeString(SubSeq(data, 5, Len(data)))
                  IN  IF rest.err # NoErr THEN CorruptInput
                      ELSE [err |-> NoErr,
                            str |-> <<(B64Value(c1) * 4 + B64Value(c2) \div 16) % 256,
                                      (B64Value(c2) * 16 + B64Value(c3) \div 4) % 256,
                                      (B64Value(c3) * 64 + B64Value(c4)) % 256>>
                                    \o rest.str]

\* decodeEmailBody: the decoded string, or "" and the decoder's error.
decodeEmailBody(data) ==
    LET d == DecodeString(data)
    IN  IF d.err # NoErr THEN [body |-> <<>>, err |-> d.err]
        ELSE [body |-> d.str, err |-> NoErr]

\* The inner loop with a slip: the size test is left out.
RECURSIVE InnerMatch_AcceptsEmpty(_, _, _)
InnerMatch_AcceptsEmpty(parts, j, mimeType) ==
    IF j > Len(parts) THEN 0
    ELSE IF parts[j].MimeType = mimeType THEN j
    ELSE InnerMatch_AcceptsEmpty(parts, j + 1, mimeType)

\* GetBody's inner loop from position j: the first sub-part of the wanted
\* type and of size at least 1, 0 if none.
RECURSIVE InnerMatch(_, _, _)
InnerMatch(parts, j, mimeType) ==
    IF j > Len(parts) THEN 0
    ELSE IF parts[j].MimeType = mimeType /\ parts[j].Body.Size >= 1 THEN j
    ELSE InnerMatch(parts, j + 1, mimeType)

\* GetBody's outer loop from position i.
RECURSIVE GetBodyFrom(_, _, _)
GetBodyFrom(parts, i, mimeType) ==
    IF i > Len(parts) THEN [body |-> <<>>, err |-> "Couldn't Read Body"]
    ELSE LET v == parts[i]
             l == IF v.MimeType = "multipart/alternative"
                  THEN InnerMatch(v.Parts, 1, mimeType)
                  ELSE 0
         IN  IF l # 0 THEN decodeEmailBody(v.Parts[l].Body.Data)
             ELSE IF v.MimeType = mimeType /\ v.Body.Size >= 1
             THEN decodeEmailBody(v.Body.Data)
             ELSE GetBodyFrom(parts, i + 1, mimeType)

GetBody(parts, mimeType) == GetBodyFrom(parts, 1, mimeType)

\* The messages GetBody is run on: payload trees of at most MaxNodes parts
\* and MaxDepth levels.
TextPlain == "text/plain"
TextHtml == "text/html"
Alternative == "multipart/alternative"
Mixed == "multipart/mixed"

Leaf(m, size, data) ==
    [MimeType |-> m, Body |-> [Size |-> size, Data |-> data], Parts |-> <<>>]
Container(m, body, parts) ==
    [MimeType |-> m, Body |-> body, Parts |-> parts]

\* "hi", "Hi!", and a string with a character outside the URL alphabet.
DataHi == <<"a", "G", "k", "=">>
DataHiBang == <<"S", "G", "k", "h">>
DataBad == <<"a", "+", "k", "=">>

Leaves ==
    {Leaf(TextPlain, 0, DataHi), Leaf(TextPlain, 1, DataHi),
     Leaf(TextPlain, 1, DataBad), Leaf(TextHtml, 1, DataHiBang),
     Leaf(TextHtml, 0, DataHiBang)}

\* A container's own body: none, or (unusually) one of its own.
ContainerBodies == {[Size |-> 0, Data |-> <<>>], [Size |-> 1, Data |-> DataHi]}

\* The part lists of exactly n parts in all, of at most d levels.
RECURSIVE Forests(_, _)
Forests(n, d) ==
    IF n = 0 THEN {<<>>}
    ELSE IF d = 0 THEN {}
    ELSE UNION {
           UNION {
             {<<first>> \o rest :
                first \in (IF k = 1 THEN Leaves ELSE {})
                          \cup {Container(m, body, sub) :
                                  m \in {Alternative, Mixed},
                                  body \in ContainerBodies,
                                  sub \in Forests(k - 1, d - 1)}}
             : rest \in Forests(n - k, d)}
           : k \in 1..n}

Payloads == UNION {Forests(n, MaxDepth) : n \in 0..MaxNodes}

NoBody == [body |-> <<>>, err |-> NoErr]

\* The caller runs GetBody(msg, mimeType) on the message.
CallGetBody ==
    /\ bpc = "idle"
    /\ \E mimeType \in {TextPlain, TextHtml, Alternative} :
         /\ bmime' = mimeType
         /\ bret' = GetBody(bmsg, mimeType)
    /\ bpc' = "done"
    /\ UNCHANGED bmsg
    /\ UNCHANGED notBody

\* The caller has the result and may ask for another MIME type.
BodyReturn ==
    /\ bpc = "done"
    /\ bpc' = "idle"
    /\ bmime' = ""
    /\ bret' = NoBody
    /\ UNCHANGED bmsg
    /\ UNCHANGED notBody

BodyNext ==
    \/ CallGetBody
    \/ BodyReturn

(***************************************************************************)
(* GetPartialMetadata (src/inboxer.go).                                    *)
(***************************************************************************)
notMeta == <<fetchVars, authVars, bodyVars, unreadVars>>

\* &PartialMetadata{}: empty strings and nil slices.
EmptyMetadata ==
    [Sender |-> "", From |-> "", Subject |-> "", MailingList |-> "",
     CC |-> <<>>, To |-> <<>>, ThreadTopic |-> <<>>, DeliveredTo |-> <<>>]

\* The switch with a slip: header names are matched without regard to case.
MetadataSwitch_IgnoresCase(m, v) ==
    CASE v.Name = "Sender" -> [m EXCEPT !.Sender = v.Value]
      [] v.Name = "From" -> [m EXCEPT !.From = v.Value]
      [] v.Name = "Subject" -> [m EXCEPT !.Subject = v.Value]
      [] v.Name = "Mailing-list" -> [m EXCEPT !.MailingList = v.Value]
      [] v.Name \in {"CC", "Cc"} -> [m EXCEPT !.CC = Append(@, v.Value)]
      [] v.Name = "To" -> [m EXCEPT !.To = Append(@, v.Value)]
      [] v.Name = "Thread-Topic" -> [m EXCEPT !.ThreadTopic = Append(@, v.Value)]
      [] v.Name = "Delivered-To" -> [m EXCEPT !.DeliveredTo = Append(@, v.Value)]
      [] OTHER -> m

\* The body of the range loop: the switch on v.Name.
MetadataSwitch(m, v) ==
    CASE v.Name = "Sender" -> [m EXCEPT !.Sender = v.Value]
      [] v.Name = "From" -> [m EXCEPT !.From = v.Value]
      [] v.Name = "Subject" -> [m EXCEPT !.Subject = v.Value]
      [] v.Name = "Mailing-list" -> [m EXCEPT !.MailingList = v.Value]
      [] v.Name = "CC" -> [m EXCEPT !.CC = Append(@, v.Value)]
      [] v.Name = "To" -> [m EXCEPT !.To = Append(@, v.Value)]
      [] v.Name = "Thread-Topic" -> [m EXCEPT !.ThreadTopic = Append(@, v.Value)]
      [] v.Name = "Delivered-To" -> [m EXCEPT !.DeliveredTo = Append(@, v.Value)]
      [] OTHER -> m

RECURSIVE MetadataFrom(_, _, _)
MetadataFrom(m, hs, i) ==
    IF i > Len(hs) THEN m
    ELSE MetadataFrom(MetadataSwitch(m, hs[i]), hs, i + 1)

GetPartialMetadata(hs) == MetadataFrom(EmptyMetadata, hs, 1)

\* The header names the messages carry: the eight known ones, a case variant
\* and an unrelated one.
HeaderNames ==
    {"Sender", "From", "Subject", "Mailing-list", "CC", "To", "Thread-Topic",
     "Delivered-To", "Cc", "X-Mailer"}
HeaderValues == {"x@example.org", "y@example.org"}
Headers == [Name : HeaderNames, Value : HeaderValues]
HeaderLists == UNION {[1..n -> Headers] : n \in 0..MaxHeaders}

\* The caller runs GetPartialMetadata(msg).
CallGetPartialMetadata ==
    /\ hpc = "idle"
    /\ info' = GetPartialMetadata(headers)
    /\ hpc' = "done"
    /\ UNCHANGED headers
    /\ UNCHANGED notMeta

MetaNext == CallGetPartialMetadata

(***************************************************************************)
(* CheckForUnreadByLabel and CheckForUnread (src/inboxer.go).  The counts  *)
(* are int64 in the code; here they stay far below the int64 range, where  *)
(* the sum cannot wrap.                                                    *)
(***************************************************************************)
notUnread == <<fetchVars, authVars, bodyVars, metaVars>>

Labels == {"UNREAD", "INBOX"}
Counts == 0..MaxCount
NoCount == [n |-> 0, err |-> NoErr]

\* The result with a slip: a failed fetch reports 0 beside the error.
UnreadResult_ZeroOnError(ok, e, stats) ==
    IF ~ok THEN [n |-> 0, err |-> e]
    ELSE [n |-> stats.MessagesUnread + stats.ThreadsUnread, err |-> NoErr]

\* The code after Labels.Get: the error branch, the zero test, the sum.
UnreadResult(ok, e, stats) ==
    IF ~ok THEN [n |-> -1, err |-> e]
    ELSE IF stats.MessagesUnread = 0 /\ stats.ThreadsUnread = 0
    THEN [n |-> 0, err |-> NoErr]
    ELSE [n |-> stats.MessagesUnread + stats.ThreadsUnread, err |-> NoErr]

\* The caller starts CheckForUnreadByLabel(srv, label).
CallCheckForUnreadByLabel ==
    /\ upc = "idle"
    /\ \E l \in Labels : ulabel' = l
    /\ uop' = "CheckForUnreadByLabel"
    /\ upc' = "fetch"
    /\ uret' = NoCount
    /\ UNCHANGED <<labelStats, uerr>>
    /\ UNCHANGED notUnread

\* The caller starts CheckForUnread(srv).
CallCheckForUnread ==
    /\ upc = "idle"
    /\ ulabel' = "UNREAD"
    /\ uop' = "CheckForUnread"
    /\ upc' = "fetch"
    /\ uret' = NoCount
    /\ UNCHANGED <<labelStats, uerr>>
    /\ UNCHANGED notUnread

\* CheckForUnreadByLabel: Labels.Get(label) and what follows.
CheckForUnreadByLabel ==
    /\ upc = "fetch"
    /\ uop = "CheckForUnreadByLabel"
    /\ \/ /\ uret' = UnreadResult(TRUE, NoErr, labelStats[ulabel])
          /\ uerr' = NoErr
       \/ \E e \in RemoteErrors :
            /\ uret' = UnreadResult(FALSE, e, labelStats[ulabel])
            /\ uerr' = e
    /\ upc' = "done"
    /\ UNCHANGED <<labelStats, uop, ulabel>>
    /\ UNCHANGED notUnread

\* CheckForUnread: Labels.Get("UNREAD") and what follows.
CheckForUnread ==
    /\ upc = "fetch"
    /\ uop = "CheckForUnread"
    /\ \/ /\ uret' = UnreadResult(TRUE, NoErr, labelStats["UNREAD"])
          /\ uerr' = NoErr
       \/ \E e \in RemoteErrors :
            /\ uret' = UnreadResult(FALSE, e, labelStats["UNREAD"])
            /\ uerr' = e
    /\ upc' = "done"
    /\ UNCHANGED <<labelStats, uop, ulabel>>
    /\ UNCHANGED notUnread

\* The caller has the count; mail is read or arrives before the next call.
UnreadReturn ==
    /\ upc = "done"
    /\ upc' = "idle"
    /\ \E l \in Labels, m, t \in Counts :
         labelStats' = [labelStats EXCEPT ![l] = [MessagesUnread |-> m, ThreadsUnread |-> t]]
    /\ UNCHANGED <<uop, ulabel, uret, uerr>>
    /\ UNCHANGED notUnread

UnreadNext ==
    \/ CallCheckForUnreadByLabel
    \/ CallCheckForUnread
    \/ CheckForUnreadByLabel
    \/ CheckForUnread
    \/ UnreadReturn

(***************************************************************************)
(* The specifications.  Each starts its own machine and holds the others   *)
(* at rest.                                                                *)
(***************************************************************************)
\* The mailbox in any listing order with any messages unread; no call in progress.
FetchInit ==
    /\ order \in Orderings(MsgIds)
    /\ labels \in [MsgIds -> SUBSET LabelIds]
    /\ op = "none" /\ pc = "idle" /\ arg = NoArg
    /\ inbox = NilResponse /\ msgSlice = <<>> /\ idx = 0
    /\ ret = [msgs |-> <<>>, err |-> NoErr]
    /\ provErr = NoErr /\ fetched = <<>> /\ modified = <<>>
    /\ file = [exists |-> FALSE, data |-> <<>>]
    /\ apc = <<>> /\ aop = <<>> /\ creds = <<>> /\ tok = <<>> /\ aret = <<>>
    /\ prompted = <<>> /\ exchanged = <<>> /\ wrote = <<>> /\ found = <<>>
    /\ calls = <<>> /\ persisted = 0
    /\ bmsg = <<>> /\ bmime = "" /\ bpc = "idle" /\ bret = NoBody
    /\ headers = <<>> /\ info = EmptyMetadata /\ hpc = "idle"
    /\ labelStats = <<>> /\ upc = "idle" /\ uop = "none" /\ ulabel = ""
    /\ uret = NoCount /\ uerr = NoErr

\* No token cache file yet; every process idle.
AuthInit ==
    /\ order = <<>> /\ labels = <<>> /\ op = "none" /\ pc = "idle" /\ arg = NoArg
    /\ inbox = NilResponse /\ msgSlice = <<>> /\ idx = 0
    /\ ret = [msgs |-> <<>>, err |-> NoErr]
    /\ provErr = NoErr /\ fetched = <<>> /\ modified = <<>>
    /\ file = [exists |-> FALSE, data |-> <<>>]
    /\ apc = [p \in Procs |-> "idle"]
    /\ aop = [p \in Procs |-> "none"]
    /\ creds = [p \in Procs |-> "ok"]
    /\ tok = [p \in Procs |-> <<>>]
    /\ aret = [p \in Procs |-> NoReturn]
    /\ prompted = [p \in Procs |-> FALSE]
    /\ exchanged = [p \in Procs |-> FALSE]
    /\ wrote = [p \in Procs |-> FALSE]
    /\ found = [p \in Procs |-> "unchecked"]
    /\ calls = [p \in Procs |-> 0]
    /\ persisted = 0
    /\ bmsg = <<>> /\ bmime = "" /\ bpc = "idle" /\ bret = NoBody
    /\ headers = <<>> /\ info = EmptyMetadata /\ hpc = "idle"
    /\ labelStats = <<>> /\ upc = "idle" /\ uop = "none" /\ ulabel = ""
    /\ uret = NoCount /\ uerr = NoErr

\* Any payload; GetBody not yet called.
BodyInit ==
    /\ order = <<>> /\ labels = <<>> /\ op = "none" /\ pc = "idle" /\ arg = NoArg
    /\ inbox = NilResponse /\ msgSlice = <<>> /\ idx = 0
    /\ ret = [msgs |-> <<>>, err |-> NoErr]
    /\ provErr = NoErr /\ fetched = <<>> /\ modified = <<>>
    /\ file = [exists |-> FALSE, data |-> <<>>]
    /\ apc = <<>> /\ aop = <<>> /\ creds = <<>> /\ tok = <<>> /\ aret = <<>>
    /\ prompted = <<>> /\ exchanged = <<>> /\ wrote = <<>> /\ found = <<>>
    /\ calls = <<>> /\ persisted = 0
    /\ bmsg \in Payloads
    /\ bmime = "" /\ bpc = "idle" /\ bret = NoBody
    /\ headers = <<>> /\ info = EmptyMetadata /\ hpc = "idle"
    /\ labelStats = <<>> /\ upc = "idle" /\ uop = "none" /\ ulabel = ""
    /\ uret = NoCount /\ uerr = NoErr

\* Any header list; GetPartialMetadata not yet called.
MetaInit ==
    /\ order = <<>> /\ labels = <<>> /\ op = "none" /\ pc = "idle" /\ arg = NoArg
    /\ inbox = NilResponse /\ msgSlice = <<>> /\ idx = 0
    /\ ret = [msgs |-> <<>>, err |-> NoErr]
    /\ provErr = NoErr /\ fetched = <<>> /\ modified = <<>>
    /\ file = [exists |-> FALSE, data |-> <<>>]
    /\ apc = <<>> /\ aop = <<>> /\ creds = <<>> /\ tok = <<>> /\ aret = <<>>
    /\ prompted = <<>> /\ exchanged = <<>> /\ wrote = <<>> /\ found = <<>>
    /\ calls = <<>> /\ persisted = 0
    /\ bmsg = <<>> /\ bmime = "" /\ bpc = "idle" /\ bret = NoBody
    /\ headers \in HeaderLists
    /\ info = EmptyMetadata /\ hpc = "idle"
    /\ labelStats = <<>> /\ upc = "idle" /\ uop = "none" /\ ulabel = ""
    /\ uret = NoCount /\ uerr = NoErr

\* Any unread counts; no call in progress.
UnreadInit ==
    /\ order = <<>> /\ labels = <<>> /\ op = "none" /\ pc = "idle" /\ arg = NoArg
    /\ inbox = NilResponse /\ msgSlice = <<>> /\ idx = 0
    /\ ret = [msgs |-> <<>>, err |-> NoErr]
    /\ provErr = NoErr /\ fetched = <<>> /\ modified = <<>>
    /\ file = [exists |-> FALSE, data |-> <<>>]
    /\ apc = <<>> /\ aop = <<>> /\ creds = <<>> /\ tok = <<>> /\ aret = <<>>
    /\ prompted = <<>> /\ exchanged = <<>> /\ wrote = <<>> /\ found = <<>>
    /\ calls = <<>> /\ persisted = 0
    /\ bmsg = <<>> /\ bmime = "" /\ bpc = "idle" /\ bret = NoBody
    /\ headers = <<>> /\ info = EmptyMetadata /\ hpc = "idle"
    /\ labelStats \in [Labels -> [MessagesUnread : Counts, ThreadsUnread : Counts]]
    /\ upc = "idle" /\ uop = "none" /\ ulabel = ""
    /\ uret = NoCount /\ uerr = NoErr

SpecFetch == FetchInit /\ [][FetchNext]_vars

SpecAuth == AuthInit /\ [][AuthNext]_vars

SpecBody == BodyInit /\ [][BodyNext]_vars

SpecMeta == MetaInit /\ [][MetaNext]_vars

SpecUnread == UnreadInit /\ [][UnreadNext]_vars
(***************************************************************************)
(* Properties of Query, GetMessages and MarkAllAsRead (under SpecFetch).   *)
(***************************************************************************)
\* C1: once the list call of Query or GetMessages has succeeded with IDs
\* id_1..id_n, the Get requests are issued in that order up to and including
\* the first failing one; the call returns the hydrated messages of the
\* prefix id_1..id_k fetched before it, and a nil error exactly when k = n
\* (so an empty list and nil for n = 0); otherwise the failing Get's error.
C1_FetchReturnsFetchedPrefix ==
    (pc = "done" /\ op \in {"Query", "GetMessages"} /\ ~inbox.isNil) =>
        LET ids == inbox.Messages
            n == Len(ids)
            k == Len(ret.msgs)
        IN  /\ k <= n
            /\ \A j \in 1..k : ret.msgs[j] = [Id |-> ids[j], LabelIds |-> labels[ids[j]]]
            /\ (ret.err = NoErr) <=> (k = n)
            /\ fetched = Prefix(ids, IF k = n THEN n ELSE k + 1)
            /\ ret.err # NoErr => ret.err = provErr /\ provErr \in RemoteErrors

\* C1's case: a list of three IDs, the second Get fails, one message and the
\* error are returned.
C1_Witness ==
    /\ pc = "done" /\ op = "Query" /\ ~inbox.isNil
    /\ Len(inbox.Messages) = 3
    /\ Len(ret.msgs) = 1
    /\ ret.err # NoErr

\* C2: when the list call fails, Query and GetMessages both end by returning
\* that error to the caller, having issued no Get request; neither aborts.
C2_ListFailureIsReturned ==
    (op \in {"Query", "GetMessages"} /\ pc \in {"done", "panic"} /\ inbox.isNil) =>
        /\ pc = "done"
        /\ provErr \in RemoteErrors
        /\ ret.err = provErr
        /\ fetched = <<>>

\* C3: MarkAllAsRead issues one Modify per message its query returned, in
\* order, and none if the query failed.  It stops at the first failing
\* Modify and returns its error: the messages before it have lost UNREAD and
\* nothing else, that one and the later ones are as they were fetched.  When
\* it returns nil every returned message has lost UNREAD and nothing else.
C3_MarkAllAsReadPartial ==
    op = "MarkAllAsRead" =>
        LET n == Len(msgSlice)
            f == Len(modified)
            queryFailed == \/ inbox.isNil
                           \/ pc = "done" /\ n < Len(inbox.Messages)
            lostUnread(j) == labels[msgSlice[j].Id] = msgSlice[j].LabelIds \ {"UNREAD"}
            untouched(j) == /\ labels[msgSlice[j].Id] = msgSlice[j].LabelIds
                            /\ "UNREAD" \in labels[msgSlice[j].Id]
        IN  /\ f <= n
            /\ \A j \in 1..f : modified[j] = msgSlice[j].Id
            /\ (pc \in {"list", "get", "panic"} \/ queryFailed) => f = 0
            /\ (pc = "done" /\ ~queryFailed) =>
                 /\ \A j \in 1..n : msgSlice[j].Id = inbox.Messages[j]
                 /\ IF ret.err = NoErr
                    THEN /\ f = n
                         /\ \A j \in 1..n : lostUnread(j)
                    ELSE /\ f >= 1
                         /\ ret.err = provErr
                         /\ \A j \in 1..(f - 1) : lostUnread(j)
                         /\ \A j \in f..n : untouched(j)

\* C3's case: three unread messages, the second Modify fails.
C3_Witness ==
    /\ op = "MarkAllAsRead" /\ pc = "done"
    /\ ret.err # NoErr
    /\ Len(msgSlice) = 3
    /\ Len(modified) = 2
    /\ "UNREAD" \notin labels[msgSlice[1].Id]
    /\ "UNREAD" \in labels[msgSlice[2].Id]
    /\ "UNREAD" \in labels[msgSlice[3].Id]

(***************************************************************************)
(* Properties of SetupGmailService, GetGmailServiceFromFile and the token  *)
(* cache file (under SpecAuth).                                            *)
(***************************************************************************)
\* A step of process p.
StepOf(p) == apc'[p] # apc[p]

\* The cache holds a readable token and no setup is past its cache check.
CacheSettled ==
    /\ DecodeToken(file.data).err = NoErr
    /\ \A p \in Procs : apc[p] \notin {"s_creds", "s_prompt", "s_exchange", "s_save", "s_encode"}

C4_Inv ==
    \A p \in Procs :
        (aop[p] = "Setup" /\ found[p] = "ok") =>
            /\ apc[p] \in {"done", "idle"}
            /\ aret[p] = Returned(NoErr, FALSE)
            /\ ~prompted[p] /\ ~exchanged[p] /\ ~wrote[p]

C4_Frame ==
    /\ \A p \in Procs :
         (StepOf(p) /\ aop'[p] = "Setup" /\ found'[p] = "ok") => file' = file
    /\ CacheSettled => (CacheSettled' /\ file' = file)

\* C4: a SetupGmailService call whose tokenFromFile succeeds returns nil
\* without prompting, exchanging a code or touching the cache file; and once
\* the cache holds a readable token with no setup past its check, no later
\* call ever changes the file.
C4_SetupIsNoOpOnCachedToken == [] C4_Inv /\ [][C4_Frame]_vars

\* C4's case: a process's second setup call finds the token one earlier
\* setup wrote.
C4_Witness ==
    \E p \in Procs :
        /\ aop[p] = "Setup" /\ apc[p] = "done" /\ found[p] = "ok"
        /\ calls[p] = 2
        /\ persisted = 1

\* C5 as stated: SetupGmailService returns an error whenever the credentials
\* file is unreadable or malformed, whatever the token cache holds, and then
\* neither prompts nor writes the cache.
C5_BadCredentialsAlwaysFail ==
    \A p \in Procs :
        (aop[p] = "Setup" /\ apc[p] = "done" /\ creds[p] # "ok") =>
            /\ aret[p].err # NoErr
            /\ ~prompted[p] /\ ~wrote[p]

\* C5 amended: SetupGmailService returns an error whenever the credentials
\* file is unreadable or malformed and its cache check found no readable
\* token, and then neither prompts, exchanges a code nor writes the cache.
C5_BadCredentialsFailWithoutCachedToken ==
    \A p \in Procs :
        (aop[p] = "Setup" /\ apc[p] = "done" /\ creds[p] # "ok" /\ found[p] # "ok") =>
            /\ aret[p].err \in {creds[p], "user lookup failed"}
            /\ ~aret[p].svc
            /\ ~prompted[p] /\ ~exchanged[p] /\ ~wrote[p]

\* C5's case: no cache file, malformed credentials, the error is returned.
C5_Witness ==
    \E p \in Procs :
        /\ aop[p] = "Setup" /\ apc[p] = "done"
        /\ creds[p] = "malformed" /\ found[p] = "open failed"
        /\ aret[p].err = "malformed"

C6_Inv ==
    \A p \in Procs :
        aop[p] = "Get" =>
            /\ ~prompted[p] /\ ~exchanged[p] /\ ~wrote[p]
            /\ apc[p] \notin {"s_open", "s_decode", "s_creds", "s_prompt",
                              "s_exchange", "s_save", "s_encode", "fatal"}
            /\ (aret[p].returned /\ (creds[p] # "ok" \/ found[p] # "ok")) =>
                 (aret[p].err # NoErr /\ ~aret[p].svc)
            /\ aret[p].svc => (aret[p].returned /\ persisted >= 1)

C6_Frame ==
    \A p \in Procs : (StepOf(p) /\ aop'[p] = "Get") => file' = file

\* C6: GetGmailServiceFromFile never prompts, exchanges a code or changes the
\* cache file; it returns an error and no service when the credentials are
\* unreadable or malformed or tokenFromFile fails; so from an empty cache a
\* service is only ever returned after a setup has written a token.
C6_GetNeverAuthorizes == [] C6_Inv /\ [][C6_Frame]_vars

\* C6's case: a construction that returned a service.
C6_Witness ==
    \E p \in Procs :
        /\ aop[p] = "Get" /\ apc[p] = "done"
        /\ aret[p].svc
        /\ persisted >= 1

\* C10: nothing orders the writers of the cache file: whatever the file
\* held, and whoever else has it open, an Encode that changes the file
\* leaves it decoding to the writer's own token (the last write wins); and a
\* setup's truncating open empties the file whatever it held.
C10_LastWriteWins ==
    [][\A p \in Procs :
         /\ (apc[p] = "s_encode" /\ StepOf(p) /\ file' # file) =>
               DecodeToken(file'.data) = [err |-> NoErr, token |-> tok[p]]
         /\ (apc[p] = "s_save" /\ StepOf(p) /\ wrote'[p]) =>
               DecodeToken(file'.data).err = "EOF"]_vars

\* C10's case: from an empty cache both processes' first setups passed the
\* cache check and have the file open for writing, and the second passed it
\* by reading the file the first had truncated and not yet written.
C10_Witness ==
    /\ \A p \in Procs : aop[p] = "Setup" /\ calls[p] = 1 /\ apc[p] = "s_encode"
    /\ found["p1"] = "open failed"
    /\ found["p2"] = "EOF"
    /\ file.data = <<>>

(***************************************************************************)
(* Properties of GetBody (under SpecBody).                                 *)
(***************************************************************************)
\* The parts in the order GetBody is said to visit them: for each top-level
\* part, the direct sub-parts of a multipart/alternative, then the part.
RECURSIVE VisitOrder(_, _)
VisitOrder(parts, i) ==
    IF i > Len(parts) THEN <<>>
    ELSE (IF parts[i].MimeType = "multipart/alternative" THEN parts[i].Parts ELSE <<>>)
         \o <<parts[i]>> \o VisitOrder(parts, i + 1)

\* The only part is a multipart/alternative holding a zero-size text/plain
\* and a text/html of "Hi!".
AlternativeExample ==
    <<Container(Alternative, [Size |-> 0, Data |-> <<>>],
                <<Leaf(TextPlain, 0, DataHi), Leaf(TextHtml, 1, DataHiBang)>>)>>

\* C7: GetBody returns the decoding of the data of the first part, in visit
\* order, whose MIME type is the requested one and whose size is at least 1
\* (the decoder's error if that data does not decode), and the not-found
\* error when there is no such part; deeper parts and the sub-parts of other
\* containers are not visited.  On the example, text/html gives "Hi!" and
\* text/plain fails.
C7_GetBodyFirstMatch ==
    bpc = "done" =>
        LET vis == VisitOrder(bmsg, 1)
            hits == {k \in 1..Len(vis) :
                       vis[k].MimeType = bmime /\ vis[k].Body.Size >= 1}
        IN  /\ IF hits = {}
               THEN bret = [body |-> <<>>, err |-> "Couldn't Read Body"]
               ELSE LET k == CHOOSE h \in hits : \A g \in hits : h <= g
                        d == DecodeString(vis[k].Body.Data)
                    IN  IF d.err = NoErr
                        THEN bret = [body |-> d.str, err |-> NoErr]
                        ELSE bret = [body |-> <<>>, err |-> d.err]
            /\ bmsg = AlternativeExample =>
                 /\ bmime = TextHtml => bret = [body |-> <<72, 105, 33>>, err |-> NoErr]
                 /\ bmime = TextPlain => bret = [body |-> <<>>, err |-> "Couldn't Read Body"]

\* C7's case: text/html asked of the example.
C7_Witness ==
    /\ bpc = "done"
    /\ bmsg = AlternativeExample
    /\ bmime = TextHtml
    /\ bret.err = NoErr

(***************************************************************************)
(* Properties of GetPartialMetadata (under SpecMeta).                      *)
(***************************************************************************)
\* The values of the headers named name, in order.
ValuesOf(name) ==
    LET hs == SelectSeq(headers, LAMBDA h : h.Name = name)
    IN  [k \in 1..Len(hs) |-> hs[k].Value]

\* The value of the last header named name, "" if there is none.
LastValueOf(name) ==
    LET at == {k \in 1..Len(headers) : headers[k].Name = name}
    IN  IF at = {} THEN ""
        ELSE headers[CHOOSE k \in at : \A g \in at : g <= k].Value

\* C8: each list field holds the values of all headers of its exact name in
\* order, each scalar field the value of the last header of its exact name,
\* and a field whose header does not occur is empty; other names, case
\* variants included, change nothing.
C8_MetadataByExactName ==
    hpc = "done" =>
        /\ info.CC = ValuesOf("CC")
        /\ info.To = ValuesOf("To")
        /\ info.ThreadTopic = ValuesOf("Thread-Topic")
        /\ info.DeliveredTo = ValuesOf("Delivered-To")
        /\ info.Sender = LastValueOf("Sender")
        /\ info.From = LastValueOf("From")
        /\ info.Subject = LastValueOf("Subject")
        /\ info.MailingList = LastValueOf("Mailing-list")
        /\ (\A k \in 1..Len(headers) : headers[k].Name \in {"Cc", "X-Mailer"}) =>
              info = EmptyMetadata

\* C8's case: two CC headers of different values and a Cc header between.
C8_Witness ==
    /\ hpc = "done"
    /\ Len(headers) = 3
    /\ headers[1].Name = "CC" /\ headers[2].Name = "Cc" /\ headers[3].Name = "CC"
    /\ headers[1].Value # headers[3].Value
    /\ info.CC = <<headers[1].Value, headers[3].Value>>

(***************************************************************************)
(* Properties of CheckForUnread and CheckForUnreadByLabel (SpecUnread).    *)
(***************************************************************************)
\* C9: both calls return (-1, the error) exactly when Labels.Get fails and
\* otherwise the sum of the label's two unread counts with a nil error, 0
\* when both are 0; the count returned is negative exactly when an error is.
C9_UnreadCountOrSentinel ==
    upc = "done" =>
        LET stats == labelStats[ulabel]
        IN  /\ uop = "CheckForUnread" => ulabel = "UNREAD"
            /\ IF uerr # NoErr
               THEN uret = [n |-> -1, err |-> uerr]
               ELSE uret = [n |-> stats.MessagesUnread + stats.ThreadsUnread, err |-> NoErr]
            /\ (uret.n < 0) <=> (uret.err # NoErr)
            /\ (uerr = NoErr /\ stats.MessagesUnread = 0 /\ stats.ThreadsUnread = 0) =>
                 uret = [n |-> 0, err |-> NoErr]

\* C9's case: a label with no unread message and no unread thread.
C9_Witness ==
    /\ upc = "done"
    /\ uop = "CheckForUnreadByLabel"
    /\ labelStats[ulabel] = [MessagesUnread |-> 0, ThreadsUnread |-> 0]
    /\ uret = [n |-> 0, err |-> NoErr]

====
